---------------------------- MODULE Spec2Model ----------------------------
(***************************************************************************)
(* Fixture dependency-graph analyzer of                                    *)
(* plugins/pytest-standards/scripts/analyze_fixtures.py.                   *)
(*                                                                         *)
(* A Python dict is modelled as a sequence of entries with pairwise        *)
(* distinct keys: the sequence order is the dict's insertion (iteration)   *)
(* order.  The recursive helpers get_depth, dfs and add_deps run on an     *)
(* explicit call stack, one action per step of an activation.              *)
(***************************************************************************)
EXTENDS Integers, Sequences, FiniteSets, TLC

(***************************************************************************)
(* Bounds of the model.                                                    *)
(***************************************************************************)
\* longest dependency list of one fixture
MaxDeps == 2
\* most dependency entries of a whole fixture mapping
MaxEdges == 4
\* deepest call stack the interpreter allows before it raises RecursionError
\* (sys.getrecursionlimit(), 1000 by default); it is above the number of
\* fixture names, so a stack this deep holds some name twice
RecursionLimit == 5

\* most dependency entries of a fixture mapping where scopes, autouse flags
\* or usages vary as well
MaxEdgesRun == 2

\* most test files of a scanned directory
MaxFiles == 2

\* the names of the declared fixtures
FixtureNames == {"a", "b", "c"}

\* the names a dependency list or a usage may hold: a name that is no key of
\* the fixture mapping is an unknown (external) name
Names == FixtureNames \cup {"tmp_path"}

\* the orders of the keys where a fixture may carry a built-in name
OrdersRun == {<<"a", "b", "c">>, <<"tmp_path", "a", "b">>}

\* the scopes of a declaration
Scopes == {"function", "class", "module", "package", "session"}

\* max_depth: int = 3
DefaultMaxDepth == 3

\* the thresholds and the scopes of a whole run
MaxDepths == {1, DefaultMaxDepth}

ScopesRun == {"function", "session"}

VARIABLES
    files,         \* the test files found, in scan order, with what they hold
    status,        \* exit status of main
    printed,       \* what main printed on standard output
    fixtures,      \* dict name -> Fixture, as a sequence of Fixture records
    usages,        \* list of the fixture_name of every FixtureUsage
    max_depth,     \* threshold argument of analyze_fixtures
    find_unused,   \* flag argument of analyze_fixtures
    pc,            \* statement of analyze_fixtures the run is at
    idx,           \* position of the running for-loop over the fixtures dict
    stack,         \* call stack of the running recursive helper
    ret,           \* value returned by the last finished activation
    depths,        \* dict name -> depth of calculate_depths, as a sequence
    cycles,        \* list of cycles of detect_circular_deps
    visited,       \* visited set of detect_circular_deps
    used_names,    \* used_names set of find_unused_fixtures
    pending,       \* names of list(used_names) not yet iterated
    issues         \* report.issues

vars == <<files, status, printed, fixtures, usages, max_depth, find_unused,
          pc, idx, stack, ret,
          depths, cycles, visited, used_names, pending, issues>>

\* main has not returned, main has not printed
NoStatus == "none"

Nothing == [format |-> "none"]

(***************************************************************************)
(* Helpers: sequences, and dicts as sequences keyed by the name field.     *)
(***************************************************************************)
\* Max that keeps the depth of the dependency seen last
Max_Last(x, y) == y

Max(x, y) == IF x >= y THEN x ELSE y

Range(s) == {s[i] : i \in DOMAIN s}

\* the keys of a dict (name in d)
Keys(d) == {d[i].name : i \in DOMAIN d}

\* d[name], for name in d
Get(d, name) == d[CHOOSE i \in DOMAIN d : d[i].name = name]

\* Put with the store forgotten: the dict is left as it was
Put_Forgotten(d, entry) == d

\* d[entry.name] = entry: a new key is appended, a known key keeps its place
Put(d, entry) ==
    IF entry.name \in Keys(d)
    THEN [i \in DOMAIN d |-> IF d[i].name = entry.name THEN entry ELSE d[i]]
    ELSE Append(d, entry)

Top(stk) == stk[Len(stk)]

Pop(stk) == SubSeq(stk, 1, Len(stk) - 1)

\* the top frame replaced
SetTop(stk, frame) == [stk EXCEPT ![Len(stk)] = frame]

\* an activation returns: its frame is popped and the caller, if any,
\* resumes after its call
ReturnFrom(stk) ==
    IF Len(stk) = 1 THEN <<>>
    ELSE SetTop(Pop(stk), [Top(Pop(stk)) EXCEPT !.at = "ret"])

(***************************************************************************)
(* extract_fixtures                                                        *)
(*                                                                         *)
(* A file is a record: parses tells whether read_text, ast.parse and the   *)
(* visitor succeed on it, fixtures and usages are what the visitor         *)
(* collects from it, in source order.                                      *)
(***************************************************************************)
\* Collect where a name that is already declared keeps its declaration
RECURSIVE Collect_FirstWins(_, _)
Collect_FirstWins(d, declared) ==
    IF declared = <<>> THEN d
    ELSE Collect_FirstWins(IF declared[1].name \in Keys(d) THEN d
                           ELSE Append(d, declared[1]),
                           Tail(declared))

\* for fixture in visitor.fixtures: fixtures[fixture.name] = fixture
RECURSIVE Collect(_, _)
Collect(d, declared) ==
    IF declared = <<>> THEN d
    ELSE Collect(Put(d, declared[1]), Tail(declared))

\* ExtractFile with the exception of a failing file ending the loop
ExtractFile_Stops ==
    /\ pc = "extract_fixtures"
    /\ idx <= Len(files)
    /\ IF files[idx].parses
       THEN /\ fixtures' = Collect(fixtures, files[idx].fixtures)
            /\ usages' = usages \o files[idx].usages
            /\ idx' = idx + 1
       ELSE /\ UNCHANGED <<fixtures, usages>>
            /\ idx' = Len(files) + 1
    /\ UNCHANGED <<files, status, printed, max_depth, find_unused, pc, stack,
                   ret, depths, cycles, visited, used_names, pending, issues>>

\* one file of the loop over test_files: the body of the try, or the
\* warning of the except branch, which leaves both results as they are
ExtractFile ==
    /\ pc = "extract_fixtures"
    /\ idx <= Len(files)
    /\ IF files[idx].parses
       THEN /\ fixtures' = Collect(fixtures, files[idx].fixtures)
            /\ usages' = usages \o files[idx].usages
       ELSE UNCHANGED <<fixtures, usages>>
    /\ idx' = idx + 1
    /\ UNCHANGED <<files, status, printed, max_depth, find_unused, pc, stack,
                   ret, depths, cycles, visited, used_names, pending, issues>>

\* return fixtures, usages: analyze_fixtures goes on with the analysis
ExtractReturn ==
    /\ pc = "extract_fixtures"
    /\ idx > Len(files)
    /\ pc' = "calculate_depths"
    /\ idx' = 1
    /\ UNCHANGED <<files, status, printed, fixtures, usages, max_depth,
                   find_unused, stack, ret, depths, cycles, visited,
                   used_names, pending, issues>>

NextExtract == ExtractFile \/ ExtractReturn

(***************************************************************************)
(* calculate_depths                                                        *)
(***************************************************************************)
\* the marker get_depth returns for a name that is on its own path
CycleSentinel == -1

\* DepthFrom without the level of the fixture itself
DepthFrom_NoIncrement(max_dep_depth) == max_dep_depth

\* get_depth: the depth recorded for a fixture whose dependencies reach
\* max_dep_depth
DepthFrom(max_dep_depth) == max_dep_depth + 1

\* IsCircular with the sentinel of a dependency ignored
IsCircular_Never(dep_depth) == FALSE

\* get_depth: does the result of a dependency abort the computation
IsCircular(dep_depth) == dep_depth = CycleSentinel

DepthFrame(name, path) ==
    [name |-> name, path |-> path, at |-> "enter", i |-> 0, max_dep_depth |-> 0]

\* for name in fixtures: if name not in depths: get_depth(name, set())
CalculateDepthsLoop ==
    /\ pc = "calculate_depths"
    /\ stack = <<>>
    /\ IF idx > Len(fixtures)
       THEN /\ pc' = "deep_nesting"
            /\ idx' = 1
            /\ stack' = stack
       ELSE /\ pc' = pc
            /\ idx' = idx + 1
            /\ stack' = IF fixtures[idx].name \notin Keys(depths)
                        THEN <<DepthFrame(fixtures[idx].name, {})>>
                        ELSE stack
    /\ UNCHANGED <<files, status, printed, fixtures, usages, max_depth,
                   find_unused, ret, depths,
                   cycles, visited, used_names, pending, issues>>

\* get_depth, from its entry to its first loop iteration or early return
GetDepthEnter ==
    /\ pc = "calculate_depths"
    /\ stack # <<>>
    /\ Top(stack).at = "enter"
    /\ LET f == Top(stack) IN
       IF f.name \in f.path
       THEN /\ ret' = CycleSentinel
            /\ stack' = ReturnFrom(stack)
            /\ depths' = depths
       ELSE IF f.name \in Keys(depths)
       THEN /\ ret' = Get(depths, f.name).depth
            /\ stack' = ReturnFrom(stack)
            /\ depths' = depths
       ELSE IF f.name \notin Keys(fixtures)
       THEN /\ ret' = 0
            /\ stack' = ReturnFrom(stack)
            /\ depths' = depths
       ELSE IF Get(fixtures, f.name).dependencies = <<>>
       THEN /\ depths' = Put(depths, [name |-> f.name, depth |-> 1])
            /\ ret' = 1
            /\ stack' = ReturnFrom(stack)
       ELSE /\ stack' = SetTop(stack, [f EXCEPT !.at = "loop", !.i = 1,
                                                !.max_dep_depth = 0])
            /\ ret' = ret
            /\ depths' = depths
    /\ UNCHANGED <<files, status, printed, fixtures, usages, max_depth,
                   find_unused, pc, idx,
                   cycles, visited, used_names, pending, issues>>

\* get_depth: one iteration of for dep in fixture.dependencies up to the
\* recursive call, or the statements after the loop
GetDepthLoop ==
    /\ pc = "calculate_depths"
    /\ stack # <<>>
    /\ Top(stack).at = "loop"
    /\ LET f == Top(stack)
           deps == Get(fixtures, f.name).dependencies
       IN
       IF f.i > Len(deps)
       THEN /\ depths' = Put(depths, [name |-> f.name,
                                      depth |-> DepthFrom(f.max_dep_depth)])
            /\ ret' = DepthFrom(f.max_dep_depth)
            /\ stack' = ReturnFrom(stack)
       ELSE IF deps[f.i] \in Keys(fixtures)
       THEN /\ stack' = Append(SetTop(stack, [f EXCEPT !.at = "call"]),
                               DepthFrame(deps[f.i], f.path \cup {f.name}))
            /\ UNCHANGED <<ret, depths>>
       ELSE /\ stack' = SetTop(stack, [f EXCEPT !.i = f.i + 1])
            /\ UNCHANGED <<ret, depths>>
    /\ UNCHANGED <<files, status, printed, fixtures, usages, max_depth,
                   find_unused, pc, idx,
                   cycles, visited, used_names, pending, issues>>

\* get_depth: the statements after the recursive call returned dep_depth
GetDepthReturn ==
    /\ pc = "calculate_depths"
    /\ stack # <<>>
    /\ Top(stack).at = "ret"
    /\ LET f == Top(stack) IN
       IF IsCircular(ret)
       THEN /\ ret' = CycleSentinel
            /\ stack' = ReturnFrom(stack)
       ELSE /\ stack' = SetTop(stack, [f EXCEPT !.at = "loop", !.i = f.i + 1,
                                  !.max_dep_depth = Max(f.max_dep_depth, ret)])
            /\ ret' = ret
    /\ UNCHANGED <<files, status, printed, fixtures, usages, max_depth,
                   find_unused, pc, idx,
                   depths, cycles, visited, used_names, pending, issues>>

NextDepths ==
    \/ CalculateDepthsLoop
    \/ GetDepthEnter
    \/ GetDepthLoop
    \/ GetDepthReturn

(***************************************************************************)
(* analyze_fixtures: deep nesting                                          *)
(***************************************************************************)
Issue(name, type, severity, message) ==
    [fixture_name |-> name, issue_type |-> type, severity |-> severity,
     message |-> message]

\* Extend that puts the new issues in front of the report
Extend_Front(report_issues, more) == more \o report_issues

\* report.issues.append(...) in a loop, report.issues.extend(...)
Extend(report_issues, more) == report_issues \o more

\* TooDeep for a depth that reaches the limit as well
TooDeep_OrEqual(depth, limit) == depth >= limit

\* is a fixture of this depth too deeply nested
TooDeep(depth, limit) == depth > limit

\* the deep_nesting issues, in the iteration order of the depths dict
DeepNestingIssues(ds, limit) ==
    LET hit == SelectSeq(ds, LAMBDA e : TooDeep(e.depth, limit)) IN
    [k \in DOMAIN hit |->
        Issue(hit[k].name, "deep_nesting", "warning",
              <<hit[k].name, hit[k].depth, limit>>)]

\* for name, depth in report.dependency_depths.items(): ...
DeepNesting ==
    /\ pc = "deep_nesting"
    /\ issues' = Extend(issues, DeepNestingIssues(depths, max_depth))
    /\ pc' = "detect_circular_deps"
    /\ idx' = 1
    /\ UNCHANGED <<files, status, printed, fixtures, usages, max_depth,
                   find_unused, stack, ret,
                   depths, cycles, visited, used_names, pending>>

(***************************************************************************)
(* detect_circular_deps                                                    *)
(***************************************************************************)
DfsFrame(name, path) == [name |-> name, path |-> path, at |-> "enter", i |-> 0]

\* path.index(name): the first position of name in path
Index(path, name) == CHOOSE k \in DOMAIN path :
                        /\ path[k] = name
                        /\ \A j \in 1..(k - 1) : path[j] # name

\* CycleOf with the whole path instead of the part from cycle_start on
CycleOf_WholePath(path, name) == Append(path, name)

\* path[cycle_start:] + [name]
CycleOf(path, name) ==
    Append(SubSeq(path, Index(path, name), Len(path)), name)

\* AddCycle that takes a fixture depending on itself for no cycle
AddCycle_NoSelf(cs, cycle) ==
    IF Len(cycle) <= 2 \/ cycle \in Range(cs) THEN cs ELSE Append(cs, cycle)

\* AddCycle without the membership test
AddCycle_NoDedup(cs, cycle) == Append(cs, cycle)

\* if cycle not in cycles: cycles.append(cycle)
AddCycle(cs, cycle) == IF cycle \in Range(cs) THEN cs ELSE Append(cs, cycle)

\* CircularIssues with the severity of the other graph issues
CircularIssues_Warning(cs) ==
    [k \in DOMAIN cs |-> Issue(cs[k][1], "circular", "warning", cs[k])]

\* the circular issues analyze_fixtures makes of the cycles
CircularIssues(cs) ==
    [k \in DOMAIN cs |-> Issue(cs[k][1], "circular", "error", cs[k])]

\* for name in fixtures: dfs(name, []); then the issues of the cycles
DetectCircularLoop ==
    /\ pc = "detect_circular_deps"
    /\ stack = <<>>
    /\ IF idx > Len(fixtures)
       THEN /\ pc' = "detect_scope_mismatches"
            /\ idx' = 1
            /\ stack' = stack
            /\ issues' = Extend(issues, CircularIssues(cycles))
       ELSE /\ pc' = pc
            /\ idx' = idx + 1
            /\ stack' = <<DfsFrame(fixtures[idx].name, <<>>)>>
            /\ issues' = issues
    /\ UNCHANGED <<files, status, printed, fixtures, usages, max_depth,
                   find_unused, ret, depths,
                   cycles, visited, used_names, pending>>

\* dfs, from its entry to its loop or early return
DfsEnter ==
    /\ pc = "detect_circular_deps"
    /\ stack # <<>>
    /\ Top(stack).at = "enter"
    /\ LET f == Top(stack) IN
       IF f.name \in Range(f.path)
       THEN /\ cycles' = AddCycle(cycles, CycleOf(f.path, f.name))
            /\ stack' = ReturnFrom(stack)
       ELSE IF f.name \in visited
       THEN /\ cycles' = cycles
            /\ stack' = ReturnFrom(stack)
       ELSE IF f.name \notin Keys(fixtures)
       THEN /\ cycles' = cycles
            /\ stack' = ReturnFrom(stack)
       ELSE /\ cycles' = cycles
            /\ stack' = SetTop(stack, [f EXCEPT !.at = "loop", !.i = 1])
    /\ UNCHANGED <<files, status, printed, fixtures, usages, max_depth,
                   find_unused, pc, idx, ret,
                   depths, visited, used_names, pending, issues>>

\* DfsLoop that takes the entries off the fixture's own dependency list
\* (dep = fixtures[name].dependencies.pop(0)) instead of reading them
DfsLoop_Consuming ==
    /\ pc = "detect_circular_deps"
    /\ stack # <<>>
    /\ Top(stack).at = "loop"
    /\ LET f == Top(stack)
           fixture == Get(fixtures, f.name)
       IN
       IF fixture.dependencies = <<>>
       THEN /\ visited' = visited \cup {f.name}
            /\ stack' = ReturnFrom(stack)
            /\ fixtures' = fixtures
       ELSE /\ visited' = visited
            /\ stack' = Append(SetTop(stack, [f EXCEPT !.at = "call"]),
                               DfsFrame(fixture.dependencies[1],
                                        Append(f.path, f.name)))
            /\ fixtures' = Put(fixtures,
                               [fixture EXCEPT
                                   !.dependencies = Tail(fixture.dependencies)])
    /\ UNCHANGED <<files, status, printed, usages, max_depth, find_unused, pc,
                   idx, ret, depths, cycles, used_names, pending, issues>>

\* dfs: one iteration of for dep in fixtures[name].dependencies, or
\* visited.add(name) after the loop
DfsLoop ==
    /\ pc = "detect_circular_deps"
    /\ stack # <<>>
    /\ Top(stack).at = "loop"
    /\ LET f == Top(stack)
           deps == Get(fixtures, f.name).dependencies
       IN
       IF f.i > Len(deps)
       THEN /\ visited' = visited \cup {f.name}
            /\ stack' = ReturnFrom(stack)
       ELSE /\ visited' = visited
            /\ stack' = Append(SetTop(stack, [f EXCEPT !.at = "call"]),
                               DfsFrame(deps[f.i], Append(f.path, f.name)))
    /\ UNCHANGED <<files, status, printed, fixtures, usages, max_depth,
                   find_unused, pc, idx, ret,
                   depths, cycles, used_names, pending, issues>>

\* dfs: back from the recursive call
DfsReturn ==
    /\ pc = "detect_circular_deps"
    /\ stack # <<>>
    /\ Top(stack).at = "ret"
    /\ stack' = SetTop(stack, [Top(stack) EXCEPT !.at = "loop",
                                                 !.i = Top(stack).i + 1])
    /\ UNCHANGED <<files, status, printed, fixtures, usages, max_depth,
                   find_unused, pc, idx, ret,
                   depths, cycles, visited, used_names, pending, issues>>

NextCycles ==
    \/ DetectCircularLoop
    \/ DfsEnter
    \/ DfsLoop
    \/ DfsReturn

(***************************************************************************)
(* detect_scope_mismatches                                                 *)
(***************************************************************************)
scope_order ==
    [session |-> 4, package |-> 3, module |-> 2, class |-> 1, function |-> 0]

\* scope_order.get(scope, 0)
Rank(scope) == IF scope \in DOMAIN scope_order THEN scope_order[scope] ELSE 0

\* Mismatch with equal scopes reported too
Mismatch_OrEqual(dep_scope, fixture_scope) == dep_scope <= fixture_scope

\* if dep_scope < fixture_scope
Mismatch(dep_scope, fixture_scope) == dep_scope < fixture_scope

\* a list without the later repetitions of its entries
RECURSIVE Distinct(_)
Distinct(seq) ==
    IF seq = <<>> THEN <<>>
    ELSE LET rest == Distinct(SubSeq(seq, 1, Len(seq) - 1)) IN
         IF seq[Len(seq)] \in Range(rest) THEN rest
         ELSE Append(rest, seq[Len(seq)])

\* ScopeIssuesOf with one issue for every distinct dependency
ScopeIssuesOf_Distinct(fs, fixture) ==
    LET bad == SelectSeq(Distinct(fixture.dependencies),
                   LAMBDA dep_name :
                       /\ dep_name \in Keys(fs)
                       /\ Mismatch(Rank(Get(fs, dep_name).scope),
                                   Rank(fixture.scope)))
    IN [k \in DOMAIN bad |->
           Issue(fixture.name, "scope_mismatch", "warning",
                 <<fixture.name, fixture.scope, bad[k],
                   Get(fs, bad[k]).scope>>)]

\* ScopeIssuesOf that takes an unknown dependency for a fixture of the
\* default scope
ScopeIssuesOf_UnknownAsFunction(fs, fixture) ==
    LET ScopeOf(dep_name) == IF dep_name \in Keys(fs)
                             THEN Get(fs, dep_name).scope ELSE "function"
        bad == SelectSeq(fixture.dependencies,
                   LAMBDA dep_name :
                       Mismatch(Rank(ScopeOf(dep_name)), Rank(fixture.scope)))
    IN [k \in DOMAIN bad |->
           Issue(fixture.name, "scope_mismatch", "warning",
                 <<fixture.name, fixture.scope, bad[k], ScopeOf(bad[k])>>)]

\* the issues of one fixture: one for every entry of its dependency list
\* that names a fixture of a narrower scope
ScopeIssuesOf(fs, fixture) ==
    LET bad == SelectSeq(fixture.dependencies,
                   LAMBDA dep_name :
                       /\ dep_name \in Keys(fs)
                       /\ Mismatch(Rank(Get(fs, dep_name).scope),
                                   Rank(fixture.scope)))
    IN [k \in DOMAIN bad |->
           Issue(fixture.name, "scope_mismatch", "warning",
                 <<fixture.name, fixture.scope, bad[k],
                   Get(fs, bad[k]).scope>>)]

\* for name, fixture in fixtures.items(): ..., from the k-th fixture on
RECURSIVE ScopeIssuesFrom(_, _)
ScopeIssuesFrom(fs, k) ==
    IF k > Len(fs) THEN <<>>
    ELSE ScopeIssuesOf(fs, fs[k]) \o ScopeIssuesFrom(fs, k + 1)

\* report.issues.extend(detect_scope_mismatches(fixtures)); if find_unused
DetectScopeMismatches ==
    /\ pc = "detect_scope_mismatches"
    /\ issues' = Extend(issues, ScopeIssuesFrom(fixtures, 1))
    /\ pc' = IF find_unused THEN "find_unused" ELSE "done"
    /\ idx' = 1
    /\ UNCHANGED <<files, status, printed, fixtures, usages, max_depth,
                   find_unused, stack, ret,
                   depths, cycles, visited, used_names, pending>>

(***************************************************************************)
(* find_unused_fixtures                                                    *)
(***************************************************************************)
builtin_fixtures ==
    {"request", "tmp_path", "tmp_path_factory", "tmpdir", "tmpdir_factory",
     "capfd", "capfdbinary", "capsys", "capsysbinary", "caplog",
     "monkeypatch", "pytestconfig", "recwarn", "cache", "doctest_namespace"}

AddDepsFrame(name) == [name |-> name, at |-> "enter", i |-> 0]

\* for usage in usages: used_names.add(usage.fixture_name); list(used_names)
FindUnusedStart ==
    /\ pc = "find_unused"
    /\ used_names' = Range(usages)
    /\ pending' = Range(usages)
    /\ pc' = "used_loop"
    /\ UNCHANGED <<files, status, printed, fixtures, usages, max_depth,
                   find_unused, idx, stack, ret,
                   depths, cycles, visited, issues>>

\* for name in list(used_names): add_deps(name); a set iterates in any order
UsedLoop ==
    /\ pc = "used_loop"
    /\ stack = <<>>
    /\ IF pending = {}
       THEN /\ pc' = "autouse_loop"
            /\ idx' = 1
            /\ UNCHANGED <<stack, pending>>
       ELSE /\ \E name \in pending :
                 /\ pending' = pending \ {name}
                 /\ stack' = <<AddDepsFrame(name)>>
            /\ UNCHANGED <<pc, idx>>
    /\ UNCHANGED <<files, status, printed, fixtures, usages, max_depth,
                   find_unused, ret, depths,
                   cycles, visited, used_names, issues>>

\* the fixtures find_unused_fixtures returns, in the order of the dict
Unused(fs, used) == SelectSeq(fs, LAMBDA fixture : fixture.name \notin used)

\* the unused issues analyze_fixtures makes of them
UnusedIssues(unused) ==
    [k \in DOMAIN unused |->
        Issue(unused[k].name, "unused", "info", <<unused[k].name>>)]

\* IsAutouse with the flag ignored
IsAutouse_Ignored(fixture) == FALSE

\* if fixture.autouse
IsAutouse(fixture) == fixture.autouse

\* for name, fixture in fixtures.items(): if fixture.autouse: ...; then the
\* built-in names, the unused list and its issues
AutouseLoop ==
    /\ pc = "autouse_loop"
    /\ stack = <<>>
    /\ IF idx > Len(fixtures)
       THEN /\ used_names' = used_names \cup builtin_fixtures
            /\ issues' = Extend(issues,
                              UnusedIssues(Unused(fixtures, used_names')))
            /\ pc' = "done"
            /\ UNCHANGED <<idx, stack>>
       ELSE /\ idx' = idx + 1
            /\ IF IsAutouse(fixtures[idx])
               THEN /\ used_names' = used_names \cup {fixtures[idx].name}
                    /\ stack' = <<AddDepsFrame(fixtures[idx].name)>>
               ELSE UNCHANGED <<used_names, stack>>
            /\ UNCHANGED <<pc, issues>>
    /\ UNCHANGED <<files, status, printed, fixtures, usages, max_depth,
                   find_unused, ret, depths,
                   cycles, visited, pending>>

InAddDeps == pc \in {"used_loop", "autouse_loop"} /\ stack # <<>>

\* add_deps: if name in fixtures
AddDepsEnter ==
    /\ InAddDeps
    /\ Top(stack).at = "enter"
    /\ stack' = IF Top(stack).name \in Keys(fixtures)
                THEN SetTop(stack, [Top(stack) EXCEPT !.at = "loop", !.i = 1])
                ELSE ReturnFrom(stack)
    /\ UNCHANGED <<files, status, printed, fixtures, usages, max_depth,
                   find_unused, pc, idx, ret,
                   depths, cycles, visited, used_names, pending, issues>>

\* can one more activation be pushed on a stack of this depth
FitsStack(depth) == depth < RecursionLimit

\* add_deps: one iteration of for dep in fixtures[name].dependencies:
\* used_names.add(dep); add_deps(dep).  A call the interpreter's stack has
\* no room for raises RecursionError, which nothing catches.
AddDepsLoop ==
    /\ InAddDeps
    /\ Top(stack).at = "loop"
    /\ LET f == Top(stack)
           deps == Get(fixtures, f.name).dependencies
       IN
       IF f.i > Len(deps)
       THEN /\ stack' = ReturnFrom(stack)
            /\ UNCHANGED <<used_names, pc>>
       ELSE /\ used_names' = used_names \cup {deps[f.i]}
            /\ IF FitsStack(Len(stack))
               THEN /\ stack' = Append(SetTop(stack, [f EXCEPT !.at = "call"]),
                                       AddDepsFrame(deps[f.i]))
                    /\ pc' = pc
               ELSE /\ stack' = <<>>
                    /\ pc' = "RecursionError"
    /\ UNCHANGED <<files, status, printed, fixtures, usages, max_depth,
                   find_unused, idx, ret,
                   depths, cycles, visited, pending, issues>>

\* add_deps: back from the recursive call
AddDepsReturn ==
    /\ InAddDeps
    /\ Top(stack).at = "ret"
    /\ stack' = SetTop(stack, [Top(stack) EXCEPT !.at = "loop",
                                                 !.i = Top(stack).i + 1])
    /\ UNCHANGED <<files, status, printed, fixtures, usages, max_depth,
                   find_unused, pc, idx, ret,
                   depths, cycles, visited, used_names, pending, issues>>

NextUnused ==
    \/ FindUnusedStart
    \/ UsedLoop
    \/ AutouseLoop
    \/ AddDepsEnter
    \/ AddDepsLoop
    \/ AddDepsReturn

\* analyze_fixtures, after extract_fixtures
Next ==
    \/ NextDepths
    \/ DeepNesting
    \/ NextCycles
    \/ DetectScopeMismatches
    \/ NextUnused

(***************************************************************************)
(* main: the exit status and the output                                    *)
(***************************************************************************)
\* has_issues reading every issue as a failure
has_issues_AnyIssue(report_issues) == report_issues # <<>>

\* FixtureReport.has_issues: any(i.severity == "error" for i in self.issues)
has_issues(report_issues) ==
    \E k \in DOMAIN report_issues : report_issues[k].severity = "error"

\* choices=["text", "json", "dot"]
OutputFormats == {"text", "json", "dot"}

\* Python's None
None == "None"

\* where a fixture is declared: its file_path, its line_number
FilePath(name) == <<"file_path", name>>

LineNumber(name) == <<"line_number", name>>

\* the file_path and the line_number of an issue: a circular issue is built
\* without them, every other issue with those of its fixture
IssueFile(i) ==
    IF i.issue_type = "circular" THEN None ELSE FilePath(i.fixture_name)

IssueLine(i) ==
    IF i.issue_type = "circular" THEN None ELSE LineNumber(i.fixture_name)

\* the record of one issue in the JSON output
JsonIssue(i) ==
    [fixture |-> i.fixture_name, type |-> i.issue_type,
     severity |-> i.severity, message |-> i.message,
     file |-> IssueFile(i), line |-> IssueLine(i)]

\* DepthOr0 that shows the cycle sentinel for a missing entry
DepthOr0_Sentinel(ds, name) ==
    IF name \in Keys(ds) THEN Get(ds, name).depth ELSE CycleSentinel

\* report.dependency_depths.get(f.name, 0)
DepthOr0(ds, name) == IF name \in Keys(ds) THEN Get(ds, name).depth ELSE 0

\* the record of one fixture in the JSON output
JsonFixture(f, ds) ==
    [name |-> f.name, file |-> FilePath(f.name), line |-> LineNumber(f.name),
     scope |-> f.scope, dependencies |-> f.dependencies,
     autouse |-> f.autouse, depth |-> DepthOr0(ds, f.name)]

CountSeverity(report_issues, severity) ==
    Cardinality({k \in DOMAIN report_issues :
                    report_issues[k].severity = severity})

\* the result dict main dumps as JSON
JsonResult ==
    [summary |-> [total_fixtures |-> Len(fixtures),
                  total_usages |-> Len(usages),
                  errors |-> CountSeverity(issues, "error"),
                  warnings |-> CountSeverity(issues, "warning")],
     fixtures |-> [k \in DOMAIN fixtures |-> JsonFixture(fixtures[k], depths)],
     issues |-> [k \in DOMAIN issues |-> JsonIssue(issues[k])]]

\* if not args.path.exists(): return 1; else the analysis starts
MainStart ==
    /\ pc = "main"
    /\ \E path_exists \in BOOLEAN :
          IF path_exists
          THEN /\ pc' = "calculate_depths"
               /\ UNCHANGED <<status, printed>>
          ELSE /\ pc' = "exit"
               /\ status' = 1
               /\ printed' = [format |-> "error"]
    /\ UNCHANGED <<files, fixtures, usages, max_depth, find_unused, idx,
                   stack, ret, depths, cycles, visited, used_names, pending,
                   issues>>

\* the output in the chosen format, then
\* return 1 if report.has_issues else 0
MainOutput ==
    /\ pc = "done"
    /\ \E output \in OutputFormats : \E graph \in BOOLEAN :
          printed' = IF output = "dot" \/ graph THEN [format |-> "dot"]
                     ELSE IF output = "json"
                     THEN [format |-> "json", result |-> JsonResult]
                     ELSE [format |-> "text"]
    /\ status' = IF has_issues(issues) THEN 1 ELSE 0
    /\ pc' = "exit"
    /\ UNCHANGED <<files, fixtures, usages, max_depth, find_unused, idx,
                   stack, ret, depths, cycles, visited, used_names, pending,
                   issues>>

\* sys.exit(main()) with an exception nothing catches: the interpreter
\* prints the traceback and exits with status 1
MainUncaught ==
    /\ pc = "RecursionError"
    /\ printed' = [format |-> "traceback"]
    /\ status' = 1
    /\ pc' = "exit"
    /\ UNCHANGED <<files, fixtures, usages, max_depth, find_unused, idx,
                   stack, ret, depths, cycles, visited, used_names, pending,
                   issues>>

NextMain ==
    \/ MainStart
    \/ Next
    \/ MainOutput
    \/ MainUncaught

(***************************************************************************)
(* Inputs                                                                  *)
(***************************************************************************)
OrdersOf(K) ==
    {o \in [1..Cardinality(K) -> K] :
        \A i, j \in DOMAIN o : i # j => o[i] # o[j]}

\* the dependency lists of a declaration
DepLists == UNION {[1..n -> Names] : n \in 0..MaxDeps}

RECURSIVE SumLen(_, _)
SumLen(g, S) ==
    IF S = {} THEN 0
    ELSE LET x == CHOOSE y \in S : TRUE IN Len(g[x]) + SumLen(g, S \ {x})

\* the dependency lists of the fixtures K, of at most n entries in all
Graphs(K, n) == {g \in [K -> DepLists] : SumLen(g, K) <= n}

\* the fixtures dict with the keys in the given order
MkFixtures(order, deps, scopes, autos) ==
    [i \in DOMAIN order |->
        [name |-> order[i], scope |-> scopes[order[i]],
         dependencies |-> deps[order[i]], autouse |-> autos[order[i]]]]

\* the usage lists: every set of names, each name once, in one order
RECURSIVE ListOf(_)
ListOf(S) ==
    IF S = {} THEN <<>>
    ELSE LET x == CHOOSE y \in S : TRUE IN <<x>> \o ListOf(S \ {x})

UsageLists == {ListOf(S) : S \in SUBSET Names}

\* the state at the given statement of analyze_fixtures, nothing computed yet
Start(at) ==
    /\ files = <<>>
    /\ status = NoStatus
    /\ printed = Nothing
    /\ pc = at
    /\ idx = 1
    /\ stack = <<>>
    /\ ret = 0
    /\ depths = <<>>
    /\ cycles = <<>>
    /\ visited = {}
    /\ used_names = {}
    /\ pending = {}
    /\ issues = <<>>

\* calculate_depths and detect_circular_deps read the names, the order and
\* the dependency lists only
InitGraph ==
    /\ \E order \in OrdersOf(FixtureNames) :
       \E deps \in Graphs(FixtureNames, MaxEdges) :
          fixtures = MkFixtures(order, deps,
                                [n \in FixtureNames |-> "function"],
                                [n \in FixtureNames |-> FALSE])
    /\ usages = <<>>
    /\ max_depth = DefaultMaxDepth
    /\ find_unused = FALSE

InitDepths == InitGraph /\ Start("calculate_depths")

SpecDepths == InitDepths /\ [][NextDepths]_vars

\* the thresholds of the deep nesting check: --max-depth takes any int
Thresholds == {-2, 0, 2, DefaultMaxDepth}

\* calculate_depths and the deep nesting check that reads its result
InitDeep ==
    /\ \E order \in OrdersOf(FixtureNames) :
       \E deps \in Graphs(FixtureNames, MaxEdges) :
          fixtures = MkFixtures(order, deps,
                                [n \in FixtureNames |-> "function"],
                                [n \in FixtureNames |-> FALSE])
    /\ usages = <<>>
    /\ max_depth \in Thresholds
    /\ find_unused = FALSE
    /\ Start("calculate_depths")

NextDeep == NextDepths \/ DeepNesting

SpecDeep == InitDeep /\ [][NextDeep]_vars

InitCycles == InitGraph /\ Start("detect_circular_deps")

SpecCycles == InitCycles /\ [][NextCycles]_vars

\* the two graph steps in a row, each step taken as soon as it can be: a
\* sequential program does not pause
NextGraph == NextDepths \/ DeepNesting \/ NextCycles

SpecGraph == InitDepths /\ [][NextGraph]_vars /\ WF_vars(NextGraph)

\* detect_scope_mismatches reads the dependency lists and the scopes
InitScopes ==
    /\ \E deps \in Graphs(FixtureNames, MaxEdgesRun) :
       \E scopes \in [FixtureNames -> Scopes] :
          fixtures = MkFixtures(<<"a", "b", "c">>, deps, scopes,
                                [n \in FixtureNames |-> FALSE])
    /\ usages = <<>>
    /\ max_depth = DefaultMaxDepth
    /\ find_unused \in BOOLEAN
    /\ Start("detect_scope_mismatches")

SpecScopes == InitScopes /\ [][DetectScopeMismatches]_vars

\* find_unused_fixtures reads the dependency lists, the autouse flags and
\* the usages
InitUnused ==
    /\ \E order \in OrdersRun :
       \E deps \in Graphs(Range(order), MaxEdgesRun) :
       \E autos \in [Range(order) -> BOOLEAN] :
          fixtures = MkFixtures(order, deps,
                                [n \in Range(order) |-> "function"], autos)
    /\ usages \in UsageLists
    /\ max_depth = DefaultMaxDepth
    /\ find_unused = TRUE
    /\ Start("find_unused")

SpecUnused == InitUnused /\ [][NextUnused]_vars

\* a whole run of analyze_fixtures reads everything: the scopes vary with
\* no autouse fixture and no usage, or one autouse flag and one usage vary
\* with every scope the default
Attributes(K) ==
    {[scopes |-> sc, autos |-> [n \in K |-> FALSE], usages |-> <<>>] :
        sc \in [K -> ScopesRun]}
    \cup
    {[scopes |-> [n \in K |-> "function"], autos |-> au, usages |-> us] :
        au \in {f \in [K -> BOOLEAN] : Cardinality({n \in K : f[n]}) <= 1},
        us \in {<<>>} \cup {<<n>> : n \in Names}}

Init ==
    /\ \E order \in OrdersRun :
       \E deps \in Graphs(Range(order), MaxEdgesRun) :
       \E at \in Attributes(Range(order)) :
          /\ fixtures = MkFixtures(order, deps, at.scopes, at.autos)
          /\ usages = at.usages
    /\ max_depth \in MaxDepths
    /\ find_unused \in BOOLEAN
    /\ Start("calculate_depths")

Spec == Init /\ [][Next]_vars

\* a run of main from the parsed arguments to the exit status
InitMain ==
    /\ \E order \in OrdersRun :
       \E deps \in Graphs(Range(order), MaxEdgesRun) :
       \E at \in Attributes(Range(order)) :
          /\ fixtures = MkFixtures(order, deps, at.scopes, at.autos)
          /\ usages = at.usages
    /\ max_depth \in MaxDepths
    /\ find_unused \in BOOLEAN
    /\ Start("main")

SpecMain == InitMain /\ [][NextMain]_vars

\* the declarations a scanned file may hold: two names, and for each name
\* two declarations that differ in scope, dependencies and autouse flag
Declarations ==
    {[name |-> n, scope |-> "function", dependencies |-> <<"b">>,
      autouse |-> FALSE] : n \in {"a", "b"}}
    \cup
    {[name |-> n, scope |-> "session", dependencies |-> <<>>,
      autouse |-> TRUE] : n \in {"a", "b"}}

\* the files: up to two declarations, and a test that uses fixture a in
\* some of the files with fewer
Files ==
    {[parses |-> p, fixtures |-> fs, usages |-> us] :
        p \in BOOLEAN,
        fs \in {<<>>} \cup {<<d>> : d \in Declarations},
        us \in {<<>>, <<"a">>}}
    \cup
    {[parses |-> p, fixtures |-> <<d, e>>, usages |-> <<>>] :
        p \in BOOLEAN, d \in Declarations, e \in Declarations}

\* analyze_fixtures from the scan of the files on
InitExtract ==
    /\ files \in UNION {[1..n -> Files] : n \in 1..MaxFiles}
    /\ status = NoStatus
    /\ printed = Nothing
    /\ fixtures = <<>>
    /\ usages = <<>>
    /\ max_depth = DefaultMaxDepth
    /\ find_unused = TRUE
    /\ pc = "extract_fixtures"
    /\ idx = 1
    /\ stack = <<>>
    /\ ret = 0
    /\ depths = <<>>
    /\ cycles = <<>>
    /\ visited = {}
    /\ used_names = {}
    /\ pending = {}
    /\ issues = <<>>

SpecExtract == InitExtract /\ [][NextExtract \/ Next]_vars

\* one mapping with a repeated dependency: a chain a, b, c where c lists b
\* four times and has the broadest scope, analysed with a threshold below
\* the depth of c
ChainDeps == [a |-> <<>>, b |-> <<"a">>, c |-> <<"b", "b", "b", "b">>]

ChainScopes == [a |-> "function", b |-> "function", c |-> "session"]

InitChain ==
    /\ \E order \in OrdersOf(FixtureNames) :
          fixtures = MkFixtures(order, ChainDeps, ChainScopes,
                                [n \in FixtureNames |-> FALSE])
    /\ usages \in {<<>>, <<"a">>, <<"c">>}
    /\ max_depth = 2
    /\ find_unused \in BOOLEAN
    /\ Start("calculate_depths")

SpecChain == InitChain /\ [][Next]_vars

(***************************************************************************)
(* The dependency graph, as the properties below speak of it.              *)
(***************************************************************************)
\* the known fixtures a fixture lists as dependencies
KnownDeps(fs, n) == Range(Get(fs, n).dependencies) \cap Keys(fs)

RECURSIVE Closure(_, _)
Closure(fs, S) ==
    LET T == S \cup UNION {KnownDeps(fs, n) : n \in S}
    IN IF T = S THEN S ELSE Closure(fs, T)

\* the direct and transitive dependencies of a known fixture
Reach(fs, n) == Closure(fs, KnownDeps(fs, n))

OnCycle(fs, n) == n \in Reach(fs, n)

\* a dependency cycle is reachable from n
CycleReachable(fs, n) ==
    OnCycle(fs, n) \/ \E m \in Reach(fs, n) : OnCycle(fs, m)

SetMax(S) == IF S = {} THEN 0 ELSE CHOOSE x \in S : \A y \in S : y <= x

DepthsReturned == pc = "deep_nesting"

CyclesReturned == pc = "detect_scope_mismatches"

ScopesReturned == pc \in {"find_unused", "done"}

\* the subjects of the issues of one type
Subjects(type) ==
    {issues[k].fixture_name : k \in {j \in DOMAIN issues :
                                        issues[j].issue_type = type}}

IssuesOf(type) == SelectSeq(issues, LAMBDA i : i.issue_type = type)

(***************************************************************************)
(* Properties                                                              *)
(***************************************************************************)
\* C1: find_unused_fixtures terminates on every fixture graph: marking the
\* dependencies of the used and autouse fixtures never recurses without end
\* (it never exhausts the call stack), cyclic graphs included.
C1_MarkingTerminates == pc # "RecursionError"

\* C2: analyze_fixtures always returns a report and never ends in an error;
\* a dependency cycle shows up as a circular issue of the returned report.
C2_AlwaysReturnsReport ==
    /\ pc \notin {"RecursionError"}
    /\ pc = "done" /\ (\E n \in Keys(fixtures) : OnCycle(fixtures, n))
          => Subjects("circular") # {}

\* C3: when calculate_depths returns, every fixture N from which no cycle is
\* reachable has depth(N) = 1 + the greatest depth of the known fixtures it
\* depends on (0 when there is none).
C3_DepthRecurrence ==
    DepthsReturned =>
        \A n \in Keys(fixtures) :
            ~CycleReachable(fixtures, n) =>
                /\ n \in Keys(depths)
                /\ KnownDeps(fixtures, n) \subseteq Keys(depths)
                /\ Get(depths, n).depth =
                     1 + SetMax({Get(depths, d).depth :
                                    d \in KnownDeps(fixtures, n)})

\* a fixture of depth 3 that also lists an unknown name
C3_Witness ==
    /\ DepthsReturned
    /\ \E n \in Keys(fixtures) :
          /\ ~CycleReachable(fixtures, n)
          /\ n \in Keys(depths)
          /\ Get(depths, n).depth = 3
          /\ \E u \in Range(Get(fixtures, n).dependencies) :
                u \notin Keys(fixtures)

Poisoned(fs, n) ==
    \E a, b \in Keys(fs) :
        /\ a # b
        /\ b \in KnownDeps(fs, a)
        /\ a \in KnownDeps(fs, b)
        /\ n \in Keys(fs)
        /\ n = a \/ n = b \/ a \in KnownDeps(fs, n)

\* the name of the fixture whose outermost get_depth call has just returned
JustReturned(n) ==
    /\ pc = "calculate_depths"
    /\ stack = <<>>
    /\ idx > 1
    /\ fixtures[idx - 1].name = n

\* C5: if A and B depend on each other, get_depth yields the cycle sentinel
\* for A, for B and for every fixture that lists A, whatever else it lists
\* and in whatever order the fixtures are visited, and none of them ever
\* gets a depth.
C5_CyclePoisoning ==
    \A n \in Keys(fixtures) :
        Poisoned(fixtures, n) =>
            /\ n \notin Keys(depths)
            /\ JustReturned(n) => ret = CycleSentinel

\* the outermost call of a fixture C has returned, where C lists another,
\* acyclic name before A, and A and B depend on each other
C5_Witness ==
    \E a, b, c \in Keys(fixtures) :
        /\ a # b /\ c # a /\ c # b
        /\ Get(fixtures, a).dependencies = <<b>>
        /\ Get(fixtures, b).dependencies = <<a>>
        /\ Len(Get(fixtures, c).dependencies) = 2
        /\ Get(fixtures, c).dependencies[1] \notin Keys(fixtures)
        /\ Get(fixtures, c).dependencies[2] = a
        /\ JustReturned(c)
        /\ ret = CycleSentinel

\* the elementary cycles of the known fixtures: p[1] -> p[2] -> ... -> p[1]
ElementaryCycles(fs) ==
    {p \in UNION {[1..n -> Keys(fs)] : n \in 1..Cardinality(Keys(fs))} :
        /\ \A i, j \in DOMAIN p : i # j => p[i] # p[j]
        /\ \A i \in DOMAIN p :
              p[(i % Len(p)) + 1] \in KnownDeps(fs, p[i])}

\* the reported path c (closed: its last name repeats its first) runs
\* through the cycle p, from any of its names on
IsRotationOf(c, p) ==
    /\ Len(c) = Len(p) + 1
    /\ \E k \in 0..(Len(p) - 1) :
          \A i \in DOMAIN c : c[i] = p[((i - 1 + k) % Len(p)) + 1]

\* two reported paths run through the same cycle
SameCycle(c, d) ==
    /\ Len(c) = Len(d)
    /\ IsRotationOf(c, SubSeq(d, 1, Len(d) - 1))

\* C6: one run surfaces all cycles: for every elementary cycle of the known
\* fixtures the report has a circular issue whose path is that cycle, up to
\* rotation.
C6_AllCyclesReported ==
    CyclesReturned =>
        \A p \in ElementaryCycles(fixtures) :
            \E k \in DOMAIN issues :
                /\ issues[k].issue_type = "circular"
                /\ IsRotationOf(issues[k].message, p)

\* the three fixtures form one cycle and nothing else
SingleCycleOfThree(fs) ==
    /\ Len(fs) = 3
    /\ \E o \in OrdersOf(Keys(fs)) :
          \A i \in 1..3 : Get(fs, o[i]).dependencies = <<o[(i % 3) + 1]>>

\* C7: no two paths found, and no two circular issues of a report, are the
\* same cycle or rotations of one cycle; a graph that is one cycle of three
\* fixtures yields exactly one circular issue, whichever fixture is first.
C7_CycleReportedOnce ==
    /\ \A i, j \in DOMAIN cycles :
          i # j => ~SameCycle(cycles[i], cycles[j])
    /\ CyclesReturned =>
          /\ \A i, j \in DOMAIN IssuesOf("circular") :
                i # j => ~SameCycle(IssuesOf("circular")[i].message,
                                    IssuesOf("circular")[j].message)
          /\ Len(IssuesOf("circular")) = Len(cycles)
          /\ SingleCycleOfThree(fixtures) => Len(IssuesOf("circular")) = 1

\* a cycle of three whose fixtures are not visited along the cycle, reported
C7_Witness ==
    /\ CyclesReturned
    /\ SingleCycleOfThree(fixtures)
    /\ fixtures[2].name \notin Range(fixtures[1].dependencies)
    /\ Len(IssuesOf("circular")) = 1

\* the ranks of the scopes, as the property states them
ScopeRank(scope) ==
    CASE scope = "session" -> 4
      [] scope = "package" -> 3
      [] scope = "module" -> 2
      [] scope = "class" -> 1
      [] scope = "function" -> 0

\* the scope_mismatch issues of fixture n about its dependency d
MismatchIssues(n, d) ==
    SelectSeq(issues, LAMBDA i : /\ i.issue_type = "scope_mismatch"
                                 /\ i.fixture_name = n
                                 /\ i.message[3] = d)

\* C8: detect_scope_mismatches emits a scope_mismatch warning with subject N
\* for a dependency D of N exactly when D is a known fixture of a narrower
\* scope than N; a broader or equal scope and an unknown name yield none.
C8_ScopeMismatchExactly ==
    ScopesReturned =>
        /\ \A n \in Keys(fixtures) : \A d \in Names :
              (MismatchIssues(n, d) # <<>>) <=>
                  /\ d \in KnownDeps(fixtures, n)
                  /\ ScopeRank(Get(fixtures, d).scope)
                        < ScopeRank(Get(fixtures, n).scope)
        /\ \A k \in DOMAIN issues :
              issues[k].issue_type = "scope_mismatch" =>
                  issues[k].severity = "warning"

\* a session fixture warned about its function dependency, next to a
\* function fixture that lists a session fixture and gets no warning
C8_Witness ==
    /\ ScopesReturned
    /\ \E n, d \in Keys(fixtures) :
          /\ Get(fixtures, n).scope = "session"
          /\ Get(fixtures, d).scope = "function"
          /\ MismatchIssues(n, d) # <<>>
          /\ n \in KnownDeps(fixtures, d)
          /\ MismatchIssues(d, n) = <<>>

\* the fixtures the property calls unused
ExpectedUnused ==
    LET roots == (Range(usages) \cap Keys(fixtures))
                 \cup {n \in Keys(fixtures) : Get(fixtures, n).autouse}
        used == Range(usages) \cup roots
                \cup UNION {Reach(fixtures, r) : r \in roots}
    IN {n \in Keys(fixtures) : n \notin used /\ n \notin builtin_fixtures}

UnusedEnded == pc \in {"done", "RecursionError"}

\* C9: with unused detection enabled, the fixtures given an unused issue are
\* exactly the known fixtures that no usage names, that no used or autouse
\* fixture depends on directly or transitively, that are not autouse and not
\* in the built-in list, one issue each.
C9_UnusedExactly ==
    UnusedEnded /\ find_unused =>
        /\ Subjects("unused") = ExpectedUnused
        /\ Len(IssuesOf("unused")) = Cardinality(ExpectedUnused)

\* C10: an autouse fixture is never reported unused, and neither is any
\* direct or transitive dependency of an autouse fixture.
C10_AutouseExempt ==
    \A n \in Keys(fixtures) :
        Get(fixtures, n).autouse =>
            /\ n \notin Subjects("unused")
            /\ Reach(fixtures, n) \cap Subjects("unused") = {}

\* a report where no usage names a fixture: an autouse fixture and its
\* dependency are not reported, the third fixture is
C10_Witness ==
    /\ pc = "done"
    /\ usages = <<>>
    /\ \E n, d, e \in Keys(fixtures) :
          /\ n # d /\ d # e /\ n # e
          /\ Get(fixtures, n).autouse
          /\ ~Get(fixtures, d).autouse /\ ~Get(fixtures, e).autouse
          /\ Get(fixtures, n).dependencies = <<d>>
          /\ Subjects("unused") = {e}


(***************************************************************************)
(* C11: a run of main that produced a report exits with a status that is   *)
(* not 0 exactly when the report holds an issue of severity error, and     *)
(* the only issues of severity error are the circular ones; this is so in  *)
(* each output format.                                                     *)
(***************************************************************************)
Reported == pc = "exit" /\ printed.format \in {"text", "json", "dot"}

C11_StatusIffError ==
    Reported =>
        /\ status \in {0, 1}
        /\ status # 0 <=> Subjects("circular") # {}
        /\ \A k \in DOMAIN issues :
              issues[k].severity = "error" <=> issues[k].issue_type = "circular"

\* a run that reports warnings and no error, and exits with 0
C11_Witness ==
    /\ Reported
    /\ printed.format = "json"
    /\ status = 0
    /\ Subjects("deep_nesting") # {}
    /\ Subjects("scope_mismatch") # {}

(***************************************************************************)
(* C12: once the deep nesting check has run, the report holds exactly one  *)
(* deep_nesting issue, a warning, for every fixture whose computed depth   *)
(* is greater than max_depth, and none for any other fixture.              *)
(***************************************************************************)
DeepNestingDone == pc \notin {"main", "calculate_depths", "deep_nesting"}

\* how many issues of a type name a fixture
IssueCount(type, name) ==
    Cardinality({k \in DOMAIN issues :
                    /\ issues[k].issue_type = type
                    /\ issues[k].fixture_name = name})

C12_DeepNestingExactly ==
    DeepNestingDone =>
        /\ \A n \in Keys(fixtures) :
              IssueCount("deep_nesting", n) =
                  IF n \in Keys(depths) /\ Get(depths, n).depth > max_depth
                  THEN 1 ELSE 0
        /\ Subjects("deep_nesting") \subseteq Keys(fixtures)
        /\ \A k \in DOMAIN issues :
              issues[k].issue_type = "deep_nesting"
                  => issues[k].severity = "warning"

\* a fixture at the threshold without an issue, one above it with an issue
C12_Witness ==
    /\ DeepNestingDone
    /\ \E n, m \in Keys(depths) :
          /\ Get(depths, n).depth = max_depth
          /\ Get(depths, m).depth = max_depth + 1
          /\ IssueCount("deep_nesting", n) = 0
          /\ IssueCount("deep_nesting", m) = 1

(***************************************************************************)
(* C13: a fixture from which a dependency cycle is reachable, for which    *)
(* get_depth returns the cycle sentinel, gets no deep_nesting issue,       *)
(* whatever max_depth is, zero and negative values included.               *)
(***************************************************************************)
C13_NoDeepNestingOnCycle ==
    DeepNestingDone =>
        \A n \in Keys(fixtures) :
            CycleReachable(fixtures, n) => IssueCount("deep_nesting", n) = 0

\* x and y depend on each other, a third fixture depends on x, the threshold
\* is negative and the report has no deep_nesting issue
C13_Witness ==
    /\ DeepNestingDone
    /\ max_depth < 0
    /\ \E x, y, z \in Keys(fixtures) :
          /\ x # y /\ z \notin {x, y}
          /\ y \in KnownDeps(fixtures, x)
          /\ x \in KnownDeps(fixtures, y)
          /\ x \in KnownDeps(fixtures, z)
    /\ Subjects("deep_nesting") = {}


(***************************************************************************)
(* C14: the deep_nesting issues are in the iteration order of the fixture  *)
(* mapping: when P precedes Q in the mapping and both have a deep_nesting  *)
(* issue, the issue of P precedes the issue of Q.  (The code walks the     *)
(* depth mapping, which get_depth fills dependencies first.)               *)
(***************************************************************************)
\* the position of the entry of a name in a dict
KeyIndex(d, name) == CHOOSE i \in DOMAIN d : d[i].name = name

\* the position of the deep_nesting issue of a fixture in the report
DeepIssueIndex(name) ==
    CHOOSE k \in DOMAIN issues :
        /\ issues[k].issue_type = "deep_nesting"
        /\ issues[k].fixture_name = name

C14_FixtureOrder ==
    DeepNestingDone =>
        \A P, Q \in Subjects("deep_nesting") :
            KeyIndex(fixtures, P) < KeyIndex(fixtures, Q)
                => DeepIssueIndex(P) < DeepIssueIndex(Q)

(***************************************************************************)
(* C15: in every report a circular issue is an error, an unused issue is   *)
(* an info, a scope_mismatch issue and a deep_nesting issue are warnings,  *)
(* and there is no issue of another kind or severity.                      *)
(***************************************************************************)
SeverityOf ==
    [circular |-> "error", unused |-> "info",
     scope_mismatch |-> "warning", deep_nesting |-> "warning"]

C15_SeverityByKind ==
    \A k \in DOMAIN issues :
        /\ issues[k].issue_type \in DOMAIN SeverityOf
        /\ issues[k].severity = SeverityOf[issues[k].issue_type]

\* a finished run whose report holds an issue of each of the four kinds
C15_Witness ==
    /\ pc = "done"
    /\ \A type \in DOMAIN SeverityOf : Subjects(type) # {}


(***************************************************************************)
(* C16: when a fixture name is declared more than once in the scanned      *)
(* files, the fixture mapping has one entry for the name, and the entry    *)
(* is the last-scanned declaration as a whole: its scope, its dependencies *)
(* and its autouse flag.  The mapping stays so through every analysis      *)
(* step that reads it.                                                     *)
(***************************************************************************)
\* the declarations the scan collects, in scan order
RECURSIVE Scanned(_)
Scanned(fls) ==
    IF fls = <<>> THEN <<>>
    ELSE (IF fls[1].parses THEN fls[1].fixtures ELSE <<>>)
         \o Scanned(Tail(fls))

\* the last-scanned declaration of a name
LastDeclared(name) ==
    LET all == Scanned(files)
        last == CHOOSE k \in DOMAIN all :
                    /\ all[k].name = name
                    /\ \A j \in DOMAIN all : all[j].name = name => j <= k
    IN all[last]

Extracted == pc # "extract_fixtures"

C16_LastDeclarationWins ==
    Extracted =>
        /\ Keys(fixtures) = {d.name : d \in Range(Scanned(files))}
        /\ Len(fixtures) = Cardinality(Keys(fixtures))
        /\ \A k \in DOMAIN fixtures :
              fixtures[k] = LastDeclared(fixtures[k].name)

\* a name declared in two files with different scope, dependencies and
\* autouse flag, at the end of a whole analysis
C16_Witness ==
    /\ pc = "done"
    /\ \E i, j \in DOMAIN Scanned(files) :
          /\ i < j
          /\ Scanned(files)[i].name = Scanned(files)[j].name
          /\ Scanned(files)[i].scope # Scanned(files)[j].scope
          /\ Scanned(files)[j] = LastDeclared(Scanned(files)[j].name)
          /\ Scanned(files)[j] \in Range(fixtures)
    /\ Len(files) > 1
    /\ \A k \in DOMAIN files : files[k].parses /\ Len(files[k].fixtures) = 1


(***************************************************************************)
(* C17: for a without dependencies, b depending on a, both of function     *)
(* scope, and c of session scope listing b four times, with threshold 2:   *)
(* the depths are a = 1, b = 2, c = 3; c gets a deep_nesting and a         *)
(* scope_mismatch warning; a and b get neither.                            *)
(***************************************************************************)
IsChain ==
    /\ Keys(fixtures) = {"a", "b", "c"}
    /\ \A n \in Keys(fixtures) :
          /\ Get(fixtures, n).dependencies = ChainDeps[n]
          /\ Get(fixtures, n).scope = ChainScopes[n]
    /\ max_depth = 2

DepthMap == [n \in Keys(depths) |-> Get(depths, n).depth]

C17_ChainWithRepeats ==
    IsChain /\ ScopesReturned =>
        /\ DepthMap = [a |-> 1, b |-> 2, c |-> 3]
        /\ IssueCount("deep_nesting", "c") = 1
        /\ IssueCount("scope_mismatch", "c") >= 1
        /\ \A n \in {"a", "b"} :
              /\ IssueCount("deep_nesting", n) = 0
              /\ IssueCount("scope_mismatch", n) = 0
        /\ \A k \in DOMAIN issues :
              issues[k].issue_type \in {"deep_nesting", "scope_mismatch"}
                  => issues[k].severity = "warning"

\* the chain analysed to the end, c with both warnings
C17_Witness ==
    /\ IsChain
    /\ pc = "done"
    /\ {"deep_nesting", "scope_mismatch"} \subseteq
          {issues[k].issue_type : k \in {j \in DOMAIN issues :
                                          issues[j].fixture_name = "c"}}


(***************************************************************************)
(* C18: in the JSON output every issue record carries the fields fixture,  *)
(* type, severity, message, file, line and depth.  (The code writes the    *)
(* depth into the fixture records only.)                                   *)
(***************************************************************************)
C18_IssueRecordFields ==
    pc = "exit" /\ printed.format = "json" =>
        \A k \in DOMAIN printed.result.issues :
            DOMAIN printed.result.issues[k] =
                {"fixture", "type", "severity", "message", "file", "line",
                 "depth"}

(***************************************************************************)
(* C19: at every step of calculate_depths the depth cache holds no cycle   *)
(* sentinel: every stored value is at least 1, it belongs to a fixture     *)
(* whose own computation has finished and from which no cycle is           *)
(* reachable, and a stored value is never removed or replaced by another.  *)
(***************************************************************************)
\* the fixtures whose get_depth activation is past its cache lookup
Computing ==
    {stack[k].name : k \in {j \in DOMAIN stack : stack[j].at # "enter"}}

CacheSound ==
    \A k \in DOMAIN depths :
        /\ depths[k].depth >= 1
        /\ depths[k].depth # CycleSentinel
        /\ depths[k].name \in Keys(fixtures)
        /\ depths[k].name \notin Computing
        /\ ~CycleReachable(fixtures, depths[k].name)

CacheKept ==
    \A k \in DOMAIN depths :
        /\ k \in DOMAIN depths'
        /\ depths'[k] = depths[k]

C19_CacheNeverHoldsSentinel == [][CacheSound' /\ CacheKept]_vars

\* get_depth has just returned the sentinel to a caller while the cache
\* already holds the depth of another fixture
C19_Witness ==
    /\ pc = "calculate_depths"
    /\ stack # <<>>
    /\ Top(stack).at = "ret"
    /\ ret = CycleSentinel
    /\ depths # <<>>


(***************************************************************************)
(* C20: calculate_depths and detect_circular_deps end on every fixture     *)
(* mapping, with cycles, self-dependencies, repeated entries and unknown   *)
(* names: the call stack never grows beyond one activation per fixture     *)
(* plus one, both functions return, an unknown name adds nothing to a      *)
(* depth, and no depth, cycle or issue names an unknown name.              *)
(***************************************************************************)
Unknown == Names \ Keys(fixtures)

GraphStepsSafe ==
    /\ Len(stack) <= Len(fixtures) + 1
    /\ FitsStack(Len(stack))
    /\ pc # "RecursionError"
    /\ Keys(depths) \cap Unknown = {}
    /\ \A k \in DOMAIN cycles : Range(cycles[k]) \cap Unknown = {}
    /\ \A k \in DOMAIN issues : issues[k].fixture_name \notin Unknown
    /\ DepthsReturned =>
          \A n \in Keys(fixtures) :
              /\ Get(fixtures, n).dependencies # <<>>
              /\ Range(Get(fixtures, n).dependencies) \subseteq Unknown
              => n \in Keys(depths) /\ Get(depths, n).depth = 1

C20_GraphStepsTerminate == <>CyclesReturned /\ []GraphStepsSafe

\* both steps have returned for a mapping with a self-dependency, a cycle
\* of two, a repeated entry and an unknown name
C20_Witness ==
    /\ CyclesReturned
    /\ \E x, y, z \in Keys(fixtures) :
          /\ x # y
          /\ Get(fixtures, x).dependencies = <<x, y>>
          /\ Get(fixtures, y).dependencies = <<x>>
          /\ \E u \in Unknown : Get(fixtures, z).dependencies = <<u>>


(***************************************************************************)
(* C21: every path detect_circular_deps reports is a cycle of the graph:   *)
(* it ends with the name it starts with, the names before the last are     *)
(* pairwise distinct known fixtures, each name lists the next one among    *)
(* its dependencies, and the circular issue made of the path has the       *)
(* first name of the path as its subject.                                  *)
(***************************************************************************)
IsRealCycle(p) ==
    /\ Len(p) >= 2
    /\ p[1] = p[Len(p)]
    /\ \A i, j \in 1..(Len(p) - 1) : i # j => p[i] # p[j]
    /\ \A i \in 1..(Len(p) - 1) :
          /\ p[i] \in Keys(fixtures)
          /\ p[i + 1] \in Range(Get(fixtures, p[i]).dependencies)

C21_ReportedPathsAreCycles ==
    /\ \A k \in DOMAIN cycles : IsRealCycle(cycles[k])
    /\ CyclesReturned =>
          /\ Len(IssuesOf("circular")) = Len(cycles)
          /\ \A k \in DOMAIN cycles :
                /\ IssuesOf("circular")[k].message = cycles[k]
                /\ IssuesOf("circular")[k].fixture_name = cycles[k][1]

\* a cycle of two fixtures found from a fixture outside of it: the reported
\* path is shorter than the path dfs is on
C21_Witness ==
    /\ CyclesReturned
    /\ \E k \in DOMAIN cycles :
          /\ Len(cycles[k]) = 3
          /\ cycles[k][1] # fixtures[1].name
          /\ cycles[k][2] # fixtures[1].name
          /\ cycles[k][1] \in Reach(fixtures, fixtures[1].name)
          /\ IssuesOf("circular")[k].fixture_name = cycles[k][1]


(***************************************************************************)
(* C22: the depth mapping, as a set of (name, depth) pairs, is a function  *)
(* of the dependency graph alone, that is of the set of known fixtures     *)
(* and, for each, the set of its known dependencies: it is the same for    *)
(* every iteration order of the fixture mapping and every order of the     *)
(* entries of a dependency list.                                           *)
(***************************************************************************)
\* the graph with every order forgotten
GraphOf(fs) == [n \in Keys(fs) |-> KnownDeps(fs, n)]

\* the number of fixtures on the longest dependency chain that starts at n,
\* for n from which no cycle is reachable
RECURSIVE Height(_, _)
Height(g, n) == 1 + SetMax({Height(g, m) : m \in g[n]})

DepthPairs == {<<depths[k].name, depths[k].depth>> : k \in DOMAIN depths}

C22_DepthsOrderIndependent ==
    DepthsReturned =>
        DepthPairs =
            {<<n, Height(GraphOf(fixtures), n)>> :
                n \in {m \in Keys(fixtures) : ~CycleReachable(fixtures, m)}}

\* the first fixture of the mapping lists its deepest dependency first and
\* a shallower one last, and both come later in the mapping
C22_Witness ==
    /\ DepthsReturned
    /\ Len(depths) = Len(fixtures)
    /\ \E d, e \in Keys(depths) :
          /\ fixtures[1].dependencies = <<d, e>>
          /\ Get(depths, d).depth > Get(depths, e).depth


(***************************************************************************)
(* C23: the report holds a circular issue exactly when the dependency      *)
(* graph of the known fixtures has a cycle, a self-dependency included,    *)
(* in every iteration order of the mapping; so has_issues is true exactly  *)
(* for the cyclic graphs.                                                  *)
(***************************************************************************)
IsCyclic(fs) == \E n \in Keys(fs) : OnCycle(fs, n)

C23_CircularIffCyclic ==
    CyclesReturned =>
        /\ (Subjects("circular") # {}) <=> IsCyclic(fixtures)
        /\ has_issues(issues) <=> IsCyclic(fixtures)

\* the only cycle is a self-dependency of the last fixture of the mapping,
\* which the other fixtures reach, and it is reported
C23_Witness ==
    /\ CyclesReturned
    /\ has_issues(issues)
    /\ {n \in Keys(fixtures) : OnCycle(fixtures, n)} =
          {fixtures[Len(fixtures)].name}
    /\ \A k \in 1..(Len(fixtures) - 1) :
          fixtures[Len(fixtures)].name \in Reach(fixtures, fixtures[k].name)


(***************************************************************************)
(* C24: once calculate_depths has returned, a known fixture has an entry   *)
(* in the depth mapping exactly when no dependency cycle is reachable      *)
(* from it, and an unknown name is never a key; the JSON output shows      *)
(* depth 0 exactly for the fixtures without an entry; and once the         *)
(* circular issues are in the report, the depth mapping is smaller than    *)
(* the fixture mapping exactly when there is a circular issue.             *)
(***************************************************************************)
DepthsDone ==
    /\ pc \notin {"main", "calculate_depths"}
    /\ pc = "exit" => Reported

CircularDone ==
    /\ pc \notin {"main", "calculate_depths", "deep_nesting",
                  "detect_circular_deps"}
    /\ pc = "exit" => Reported

C24_EntriesAndCycles ==
    /\ DepthsDone =>
          /\ Keys(depths) =
                {n \in Keys(fixtures) : ~CycleReachable(fixtures, n)}
          /\ Len(depths) = Cardinality(Keys(depths))
    /\ CircularDone =>
          (Len(depths) < Len(fixtures) <=> Subjects("circular") # {})
    /\ pc = "exit" /\ printed.format = "json" =>
          \A k \in DOMAIN printed.result.fixtures :
              printed.result.fixtures[k].depth = 0
                  <=> CycleReachable(fixtures, fixtures[k].name)

\* JSON output for a mapping where one fixture is on a cycle, one depends
\* on it and one has a depth
C24_Witness ==
    /\ pc = "exit"
    /\ printed.format = "json"
    /\ Len(depths) = 1
    /\ \E x, y \in Keys(fixtures) :
          /\ x # y
          /\ OnCycle(fixtures, x)
          /\ ~OnCycle(fixtures, y)
          /\ x \in Reach(fixtures, y)


(***************************************************************************)
(* C25: a fixture whose dependency list holds its own name is treated as   *)
(* a cycle: the report has a circular error about it with the path n, n;   *)
(* it has no depth; and the exit status of the run is not 0.               *)
(***************************************************************************)
SelfDependent ==
    {n \in Keys(fixtures) : n \in Range(Get(fixtures, n).dependencies)}

C25_SelfDependencyIsCycle ==
    \A n \in SelfDependent :
        /\ DepthsDone => n \notin Keys(depths)
        /\ CircularDone =>
              Issue(n, "circular", "error", <<n, n>>) \in Range(issues)
        /\ pc = "exit" /\ printed.format # "error" => status # 0

\* a fixture that depends on itself and on nothing else, no other cycle,
\* reported at the end of a run
C25_Witness ==
    /\ Reported
    /\ status = 1
    /\ \E n \in SelfDependent :
          /\ Get(fixtures, n).dependencies = <<n>>
          /\ cycles = << <<n, n>> >>
          /\ fixtures[1].name # n


(***************************************************************************)
(* C26: detect_scope_mismatches emits one issue per entry of a dependency  *)
(* list: a known dependency of narrower scope that fixture N lists k       *)
(* times yields k identical scope_mismatch issues for N, while N gets at   *)
(* most one deep_nesting issue and at most one unused issue.               *)
(***************************************************************************)
\* how many entries of a list are x
Occurrences(seq, x) == Cardinality({i \in DOMAIN seq : seq[i] = x})

IsNarrower(d, n) ==
    /\ d \in Keys(fixtures)
    /\ ScopeRank(Get(fixtures, d).scope) < ScopeRank(Get(fixtures, n).scope)

C26_ScopeIssuePerEntry ==
    /\ ScopesReturned =>
          \A n \in Keys(fixtures) : \A d \in Names :
              /\ Len(MismatchIssues(n, d)) =
                    IF IsNarrower(d, n)
                    THEN Occurrences(Get(fixtures, n).dependencies, d)
                    ELSE 0
              /\ Cardinality(Range(MismatchIssues(n, d))) <= 1
    /\ \A n \in Keys(fixtures) :
          /\ IssueCount("deep_nesting", n) <= 1
          /\ IssueCount("unused", n) <= 1

\* a fixture that lists one narrower dependency twice: two scope_mismatch
\* issues, one deep_nesting issue and one unused issue
C26_Witness ==
    /\ pc = "done"
    /\ \E n, d \in Keys(fixtures) :
          /\ Get(fixtures, n).dependencies = <<d, d>>
          /\ Len(MismatchIssues(n, d)) = 2
          /\ IssueCount("deep_nesting", n) = 1
          /\ IssueCount("unused", n) = 1


(***************************************************************************)
(* C27: in every report the issues are ordered by analysis: the            *)
(* deep_nesting issues first, then the circular issues, then the           *)
(* scope_mismatch issues, then the unused issues.                          *)
(***************************************************************************)
KindRank ==
    [deep_nesting |-> 1, circular |-> 2, scope_mismatch |-> 3, unused |-> 4]

C27_IssuesOrderedByKind ==
    \A i, j \in DOMAIN issues :
        i < j => KindRank[issues[i].issue_type] <= KindRank[issues[j].issue_type]

\* a finished run whose report has an issue of every kind, the first a
\* deep_nesting issue and the last an unused issue
C27_Witness ==
    /\ pc = "done"
    /\ {issues[k].issue_type : k \in DOMAIN issues} = DOMAIN KindRank
    /\ issues[1].issue_type = "deep_nesting"
    /\ issues[Len(issues)].issue_type = "unused"


(***************************************************************************)
(* C28: every issue has a key of the fixture mapping as its subject: a     *)
(* name that only occurs in a dependency list or at a usage site is never  *)
(* the subject of an issue, a member of a reported cycle, or one of the    *)
(* two fixtures of a scope comparison.                                     *)
(***************************************************************************)
C28_SubjectsAreKeys ==
    /\ \A k \in DOMAIN cycles : Range(cycles[k]) \subseteq Keys(fixtures)
    /\ \A k \in DOMAIN issues :
          /\ issues[k].fixture_name \in Keys(fixtures)
          /\ issues[k].issue_type = "circular"
                => Range(issues[k].message) \subseteq Keys(fixtures)
          /\ issues[k].issue_type = "scope_mismatch"
                => {issues[k].message[1], issues[k].message[3]}
                       \subseteq Keys(fixtures)

\* a finished run with issues where an unknown name is used by a test and
\* listed by a fixture that is on a cycle
C28_Witness ==
    /\ pc = "done"
    /\ find_unused
    /\ \E u \in Unknown : \E n \in Keys(fixtures) :
          /\ usages = <<u>>
          /\ u \in Range(Get(fixtures, n).dependencies)
          /\ OnCycle(fixtures, n)
    /\ Subjects("circular") # {}
    /\ Subjects("unused") # {}


(***************************************************************************)
(* C29: calculate_depths, detect_circular_deps, detect_scope_mismatches    *)
(* and find_unused_fixtures never change the fixture mapping, a fixture's  *)
(* fields or the usage list, nor the arguments of the run; each step       *)
(* changes only its own cache, visited set, path and result, and the       *)
(* results of the other analyses stay as they were returned.               *)
(***************************************************************************)
InUnused == pc \in {"find_unused", "used_loop", "autouse_loop"}

FrameOfStep ==
    /\ UNCHANGED <<files, fixtures, usages, max_depth, find_unused>>
    /\ pc = "calculate_depths" =>
          UNCHANGED <<cycles, visited, used_names, pending, issues>>
    /\ pc = "deep_nesting" =>
          UNCHANGED <<depths, cycles, visited, used_names, pending>>
    /\ pc = "detect_circular_deps" =>
          UNCHANGED <<depths, used_names, pending>>
    /\ pc = "detect_scope_mismatches" =>
          UNCHANGED <<depths, cycles, visited, used_names, pending>>
    /\ InUnused => UNCHANGED <<depths, cycles, visited>>

C29_AnalysesOnlyRead == [][FrameOfStep]_vars

\* the four analyses have run on a mapping with dependencies and usages,
\* and each has left a result
C29_Witness ==
    /\ pc = "done"
    /\ find_unused
    /\ usages # <<>>
    /\ \E k \in DOMAIN fixtures : fixtures[k].dependencies # <<>>
    /\ depths # <<>>
    /\ cycles # <<>>
    /\ used_names # {}
    /\ issues # <<>>


(***************************************************************************)
(* C30: in extract_fixtures a file that cannot be read or parsed adds no   *)
(* fixture and no usage and does not end the scan: the step over it        *)
(* leaves what was collected as it is and goes on to the next file, and    *)
(* at the end the usages are those of the files that parse, in scan        *)
(* order, and the fixtures are those the files that parse declare.         *)
(***************************************************************************)
RECURSIVE ScannedUsages(_)
ScannedUsages(fls) ==
    IF fls = <<>> THEN <<>>
    ELSE (IF fls[1].parses THEN fls[1].usages ELSE <<>>)
         \o ScannedUsages(Tail(fls))

FailingFileSkipped ==
    /\ pc = "extract_fixtures"
    /\ idx <= Len(files)
    /\ ~files[idx].parses
    => /\ UNCHANGED <<fixtures, usages, pc>>
       /\ idx' = idx + 1

ScanComplete ==
    Extracted =>
        /\ usages = ScannedUsages(files)
        /\ Keys(fixtures) = {d.name : d \in Range(Scanned(files))}

C30_FailingFileSkipped == [][FailingFileSkipped]_vars /\ []ScanComplete

\* the scan has ended; a failing file that holds a usage and another
\* declaration of the fixture of the first file has changed nothing
C30_Witness ==
    /\ pc = "calculate_depths"
    /\ idx = 1
    /\ stack = <<>>
    /\ Len(files) >= 2
    /\ files[1].parses /\ files[1].fixtures # <<>>
    /\ \E k \in DOMAIN files :
          /\ ~files[k].parses
          /\ files[k].usages # <<>>
          /\ files[k].fixtures # <<>>
          /\ files[k].fixtures[1].name = files[1].fixtures[1].name
          /\ files[k].fixtures[1] # files[1].fixtures[1]
    /\ usages = <<>>
    /\ fixtures = files[1].fixtures

=============================================================================
